---- MODULE Spec2Model ----
(***************************************************************************)
(* One run of the POST /api/transcribe handler of FarsiTranscriberServer,  *)
(* in each of the revisions of the server kept in the repository:          *)
(*   "server"    src/server.js          (options, close handler)           *)
(*   "part_004"  src/unnamed/part_004   (as server.js, plus registries)    *)
(*   "part_005"  src/unnamed/part_005   (always optimizes and improves)    *)
(*   "part_006"  src/unnamed/part_006   (result {original, improved})      *)
(* The handler runs on Node's single thread: every action below is the     *)
(* synchronous code between two awaits; the adapters (ffmpeg, the file     *)
(* copy, the two OpenAI calls) and the client's disconnect are the         *)
(* environment, which chooses their outcomes.                              *)
(***************************************************************************)
EXTENDS Integers, Sequences, FiniteSets, TLC

VARIABLES
  variant,            \* which revision of the server handles the request
  req,                \* the request: file present, mimetype, form fields
  pc,                 \* where the async handler is suspended
  events,             \* the SSE events written with res.write, in order
  resEnded,           \* res.end() was called (or the framework answered)
  closed,             \* the request's 'close' event has fired
  fs,                 \* the files of uploads/ and optimized/ that exist
  proc,               \* the ffmpeg subprocess of the run
  currentProcess,     \* the handler's `currentProcess` is set
  copy,               \* fs.promises.copyFile of the skip-optimize branch
  transcript,         \* the text the transcription backend returned
  transcribeResult,   \* how the transcription call ended
  improveResult,      \* how the refinement call ended
  optimizeCalls,      \* normalizer invocations of the run
  transcribeCalls,    \* transcription backend invocations of the run
  improveCalls,       \* refinement backend invocations of the run
  cleanupCalls,       \* invocations of the per-run resource release
  ioFault,            \* an unlink failed for a reason of the file system
  activeConnections,  \* the process-wide registry of responses
  activeProcesses,    \* the process-wide registry of ffmpeg processes
  closeSnap,          \* history: the run as it was when 'close' fired
  globalCleanupRan,   \* the process-wide cleanup() has run for another request
  signal,             \* the termination signal the process got, or "exited"
  svcPc,              \* where TranscriptionController/Service is suspended
  tmp,                \* the temporary directory of the service and its files
  sent,               \* the HTTP responses the controller has sent, in order
  postResult,         \* the outcome of the service's axios.post
  svcCalls,           \* ffmpeg and axios.post invocations of the service
  svcFault,           \* an unlink or rmdir of the service failed
  thrown              \* the error TranscriptionService.transcribe threw

\* the state of the modular application (index.js, routes, controller, service)
svcVars == <<svcPc, tmp, sent, postResult, svcCalls, svcFault, thrown>>

vars == <<variant, req, pc, events, resEnded, closed, fs, proc, currentProcess,
          copy, transcript, transcribeResult, improveResult, optimizeCalls,
          transcribeCalls, improveCalls, cleanupCalls, ioFault,
          activeConnections, activeProcesses, closeSnap, globalCleanupRan,
          signal, svcVars>>

---------------------------------------------------------------------------
(* Values *)

Variants == {"server", "part_004", "part_005", "part_006"}

\* a field of the multipart form: multer leaves it a string, or undefined
FormValues == {"true", "false", "absent"}

Absent == "<absent>"      \* a property JSON.stringify leaves out
Null == "<null>"          \* JSON null

\* what the transcription backend can answer with status 200
Transcripts == {"", "salam"}
\* what the refinement backend can answer with status 200
Refinements == {"salam", "salam."}
\* the body of a non-OK answer of the transcription backend
ErrorBodies == {"rate limit exceeded", "invalid file format"}

TranscribeOutcomes ==
  [kind : {"ok"}, body : Transcripts]
    \cup [kind : {"http_error"}, body : ErrorBodies]
    \cup [kind : {"network_error"}, body : {"ECONNRESET"}]

ImproveOutcomes ==
  [kind : {"ok"}, body : Refinements]
    \cup [kind : {"http_error", "network_error"}, body : {"refinement failed"}]

---------------------------------------------------------------------------
(* Paths: [dir, stem, ext], so that basename, dirname and extname are what *)
(* node's path module computes.                                            *)

Basename(p) == p.stem \o p.ext
BasenameNoExt(p) == p.stem

\* multer({dest}) names the upload with random hex and no extension;
\* part_006's diskStorage names it Date.now() + '-' + originalname
UploadPath ==
  IF variant = "part_006"
    THEN [dir |-> "uploads", stem |-> "ts-a", ext |-> ".wav"]
    ELSE [dir |-> "uploads", stem |-> "f3a9", ext |-> ""]

\* path.join(optimizedDir, path.basename(req.file.path) + '.mp3')
OptimizedDirPath(p) == [dir |-> "optimized", stem |-> Basename(p), ext |-> ".mp3"]

\* path.join(optimizedDir, path.basename('') + '.mp3'), when req.file is undefined
OptimizedDirPathNoFile == [dir |-> "optimized", stem |-> "", ext |-> ".mp3"]

\* utils/audioOptimizer: dirname(input)/basename(input, extname(input))_optimized.mp3
OptimizerOutputPath(p) ==
  [dir |-> p.dir, stem |-> BasenameNoExt(p) \o "_optimized", ext |-> ".mp3"]

\* part_006: path.join(__dirname, 'optimized', `${Date.now()}-${basename}.mp3`)
StampedOptimizedPath(p) ==
  [dir |-> "optimized", stem |-> "ts2-" \o Basename(p), ext |-> ".mp3"]

---------------------------------------------------------------------------
(* Request options *)

\* req.body.optimizeAudio === 'true'
ShouldOptimizeAudio == req.optimizeAudio = "true"
\* req.body.improveTranscription === 'true'
ShouldImproveTranscription == req.improveTranscription = "true"

\* part_005 has no options: it always optimizes and always improves
RunsOptimizer == IF variant = "part_005" THEN TRUE ELSE ShouldOptimizeAudio
RunsImprove == IF variant = "part_005" THEN TRUE ELSE ShouldImproveTranscription

\* server.js and part_004 run ffmpeg inline and register req.on('close')
Inline == variant \in {"server", "part_004"}

\* the file the ffmpeg of this run writes
FfmpegOutputPath ==
  IF Inline THEN OptimizedDirPath(UploadPath) ELSE OptimizerOutputPath(UploadPath)

\* part_006: `optimizedFilePath || originalFilePath`
FileToTranscribe ==
  IF ShouldOptimizeAudio THEN StampedOptimizedPath(UploadPath) ELSE UploadPath

---------------------------------------------------------------------------
(* Events: {status, progress, result?: {original, improved}, error?,       *)
(* transcription?}.  afterClose records whether 'close' had fired when the *)
(* event was written.                                                      *)

Event(status, hasProgress, progress, error, transcription, original, improved) ==
  [status |-> status, hasProgress |-> hasProgress, progress |-> progress,
   error |-> error, transcription |-> transcription,
   original |-> original, improved |-> improved, afterClose |-> closed]

\* sendStatus(status, progress): { status, progress }
StatusEvent(status, progress) ==
  Event(status, TRUE, progress, Absent, Absent, Absent, Absent)

\* { status: 'Error', progress: 0, error }
ErrorEvent(msg) == Event("Error", TRUE, 0, msg, Absent, Absent, Absent)

\* part_006: { status: 'Error', error: error.message }
ErrorEventNoProgress(msg) == Event("Error", FALSE, 0, msg, Absent, Absent, Absent)

\* a final event that stops short of 100
CompleteTranscriptionEventAt80(t) == Event("Complete", TRUE, 80, Absent, t, Absent, Absent)

\* { status: 'Complete', progress: 100, transcription }
CompleteTranscriptionEvent(t) == Event("Complete", TRUE, 100, Absent, t, Absent, Absent)

\* part_006: { status: 'Complete', progress: 100, result: {original, improved} }
CompleteResultEvent(o, i) == Event("Complete", TRUE, 100, Absent, Absent, o, i)

IsTerminal(e) == e.status \in {"Complete", "Error"}

\* error.message || 'An unexpected error occurred'
CatchMessage(msg) == IF msg = "" THEN "An unexpected error occurred" ELSE msg

\* the event the catch block writes
CatchEvent(msg) ==
  IF variant = "part_006" THEN ErrorEventNoProgress(msg) ELSE ErrorEvent(CatchMessage(msg))

\* what fluent-ffmpeg reports through on('error')
FfmpegErrorMessage(p) ==
  IF p = "killed" THEN "ffmpeg was killed with signal SIGKILL"
  ELSE "ffmpeg exited with code 1"

---------------------------------------------------------------------------
(* The adapters' wrappers *)

\* a handler that does not look at response.ok
ResponseOkUnchecked(outcome) == TRUE

\* `if (!response.ok)` on the transcription backend's answer
ResponseOk(outcome) == outcome.kind = "ok"

\* an on('error') that resolves, skipping the optimization silently
FfmpegSettledErrorResolves(p) == "resolve"

\* the ffmpeg promise: on('end') resolves, on('error') rejects
FfmpegSettled(p) == IF p = "ended" THEN "resolve" ELSE "reject"

\* an improveTranscription whose catch rethrows
ImproveTranscriptionRethrows(text, outcome) ==
  IF outcome.kind = "ok"
    THEN [threw |-> FALSE, value |-> outcome.body]
    ELSE [threw |-> TRUE, value |-> outcome.body]

\* improveTranscription: try { ... return content } catch { return text }
ImproveTranscription(text, outcome) ==
  IF outcome.kind = "ok"
    THEN [threw |-> FALSE, value |-> outcome.body]
    ELSE [threw |-> FALSE, value |-> text]

---------------------------------------------------------------------------
(* Resource release.  A release works on st, the files, the subprocess and *)
(* the registries as the code before it left them; f1 and f2 say whether   *)
(* the first and the second unlink, when it has a file to remove, fails in *)
(* the file system.                                                        *)

Current ==
  [fs |-> fs, proc |-> proc,
   activeProcesses |-> activeProcesses, activeConnections |-> activeConnections]

\* the closure `cleanup` of server.js, part_004 and part_005
\* a cleanup that unlinks without asking existsSync first: unlinkSync of a
\* file that is not there throws
CleanupUnguarded(st, f1, f2) ==
  LET kills == Inline /\ currentProcess
      up == UploadPath
      opt == IF req.hasFile THEN OptimizedDirPath(up) ELSE OptimizedDirPathNoFile
      threw1 == req.hasFile /\ (up \notin st.fs \/ f1)
      fs1 == IF threw1 THEN st.fs ELSE st.fs \ {up}
      threw2 == ~threw1 /\ (opt \notin fs1 \/ f2)
      fs2 == IF threw1 \/ threw2 THEN fs1 ELSE fs1 \ {opt}
      threw == threw1 \/ threw2
  IN [fs |-> fs2,
      proc |-> IF kills /\ st.proc = "running" THEN "killed" ELSE st.proc,
      activeProcesses |->
        IF kills /\ variant = "part_004" THEN st.activeProcesses \ {"proc"}
        ELSE st.activeProcesses,
      activeConnections |->
        IF variant = "part_004" /\ ~threw THEN st.activeConnections \ {"res"}
        ELSE st.activeConnections,
      fault |-> threw]

Cleanup(st, f1, f2) ==
  LET kills == Inline /\ currentProcess
      up == UploadPath
      opt == IF req.hasFile THEN OptimizedDirPath(up) ELSE OptimizedDirPathNoFile
      hasUp == req.hasFile /\ up \in st.fs
      threw1 == hasUp /\ f1
      fs1 == IF hasUp /\ ~f1 THEN st.fs \ {up} ELSE st.fs
      hasOpt == ~threw1 /\ opt \in fs1
      threw2 == hasOpt /\ f2
      fs2 == IF hasOpt /\ ~f2 THEN fs1 \ {opt} ELSE fs1
      threw == threw1 \/ threw2
  IN [fs |-> fs2,
      proc |-> IF kills /\ st.proc = "running" THEN "killed" ELSE st.proc,
      activeProcesses |->
        IF kills /\ variant = "part_004" THEN st.activeProcesses \ {"proc"}
        ELSE st.activeProcesses,
      activeConnections |->
        IF variant = "part_004" /\ ~threw THEN st.activeConnections \ {"res"}
        ELSE st.activeConnections,
      fault |-> threw]

\* part_006: the unlinks after res.end(), in the try and in the catch block
InlineCleanup(st, f1, f2) ==
  LET up == UploadPath
      opt == StampedOptimizedPath(up)
      \* optimizedFilePath is assigned before optimizeAudio is awaited
      hasOptPath == ShouldOptimizeAudio
      threw1 == up \notin st.fs \/ f1
      fs1 == IF threw1 THEN st.fs ELSE st.fs \ {up}
      tries2 == ~threw1 /\ hasOptPath
      fs2 == IF tries2 /\ opt \in fs1 /\ ~f2 THEN fs1 \ {opt} ELSE fs1
  IN [fs |-> fs2, proc |-> st.proc,
      activeProcesses |-> st.activeProcesses,
      activeConnections |-> st.activeConnections,
      fault |-> (up \in st.fs /\ f1) \/ (tries2 /\ opt \in fs1 /\ f2)]

Release(st, f1, f2) ==
  IF variant = "part_006" THEN InlineCleanup(st, f1, f2) ELSE Cleanup(st, f1, f2)

\* the effect of one release on the state
ApplyRelease(r) ==
  /\ fs' = r.fs
  /\ proc' = r.proc
  /\ activeProcesses' = r.activeProcesses
  /\ activeConnections' = r.activeConnections
  /\ ioFault' = (ioFault \/ r.fault)
  /\ cleanupCalls' = cleanupCalls + 1

\* a step of the handler that releases nothing
Keep(st) ==
  /\ fs' = st.fs
  /\ proc' = st.proc
  /\ activeProcesses' = st.activeProcesses
  /\ activeConnections' = st.activeConnections
  /\ UNCHANGED <<ioFault, cleanupCalls>>

\* the end of the handler: the last writes, res.end(), then the release
Finish(evs, st) ==
  /\ events' = evs
  /\ resEnded' = TRUE
  /\ pc' = "done"
  /\ \E f1, f2 \in BOOLEAN : ApplyRelease(Release(st, f1, f2))

\* a catch block that starts the handler over instead of ending the run
CatchRetries(evs, st, msg) ==
  /\ events' = evs
  /\ UNCHANGED resEnded
  /\ pc' = "start"
  /\ Keep(st)

\* the catch block: one Error event, res.end(), then the release
Catch(evs, st, msg) == Finish(Append(evs, CatchEvent(msg)), st)

---------------------------------------------------------------------------
(* The state when the handler is entered: multer has stored the upload.    *)

\* no axios.post has settled; nothing was thrown
NoOutcome == [kind |-> "none", status |-> 0, data |-> Absent, message |-> <<>>]
NoError == [kind |-> "none", status |-> 0, message |-> <<>>]

\* the modular application is not the one serving the request
ServiceIdle ==
  /\ svcPc = "idle"
  /\ tmp = {}
  /\ sent = <<>>
  /\ postResult = NoOutcome
  /\ svcCalls = [ffmpeg |-> 0, post |-> 0]
  /\ svcFault = FALSE
  /\ thrown = NoError

\* before 'close' has fired
NoSnap == [pc |-> "none", proc |-> "none", fs |-> {}, nEvents |-> 0]

Requests ==
  {r \in [hasFile : BOOLEAN, audio : BOOLEAN,
          optimizeAudio : FormValues, improveTranscription : FormValues] :
     ~r.hasFile => ~r.audio}

Init ==
  /\ variant \in Variants
  /\ req \in Requests
  /\ pc = "start"
  /\ events = <<>>
  /\ resEnded = FALSE
  /\ closed = FALSE
  /\ fs = IF req.hasFile THEN {UploadPath} ELSE {}
  /\ proc = "none"
  /\ currentProcess = FALSE
  /\ copy = "none"
  /\ transcript = Absent
  /\ transcribeResult = "none"
  /\ improveResult = "none"
  /\ optimizeCalls = 0
  /\ transcribeCalls = 0
  /\ improveCalls = 0
  /\ cleanupCalls = 0
  /\ ioFault = FALSE
  /\ activeConnections = {}
  /\ activeProcesses = {}
  /\ closeSnap = NoSnap
  /\ globalCleanupRan = FALSE
  /\ signal = "none"
  /\ ServiceIdle

\* the variables of the adapters' results, which most steps leave alone
UnchangedCalls == UNCHANGED <<optimizeCalls, transcribeCalls, improveCalls>>
UnchangedResults == UNCHANGED <<transcript, transcribeResult, improveResult>>

---------------------------------------------------------------------------
(* The handler, from its entry to its first await *)

\* activeConnections.add(res), in part_004
Registered(st) ==
  IF variant = "part_004"
    THEN [st EXCEPT !.activeConnections = @ \cup {"res"}]
    ELSE st

\* currentProcess = process; activeProcesses.add(process); process.save(...)
Spawned(st) ==
  [st EXCEPT !.proc = "running",
             !.activeProcesses = IF variant = "part_004" THEN @ \cup {"proc"} ELSE @]

\* on('end') and on('error') of part_004: activeProcesses.delete(process)
Settled(st) == [st EXCEPT !.activeProcesses = @ \ {"proc"}]

\* server.js 68-166, part_004 155-262
StartInline ==
  /\ Inline
  /\ pc = "start"
  /\ UNCHANGED svcVars
  /\ UNCHANGED <<variant, req, signal, globalCleanupRan, closeSnap, closed>>
  /\ UnchangedResults
  /\ UNCHANGED <<transcribeCalls, improveCalls>>
  /\ IF ~req.hasFile
       THEN \* throw new Error('No file uploaded')
         /\ Catch(events, Registered(Current), "No file uploaded")
         /\ UNCHANGED <<currentProcess, copy, optimizeCalls>>
       ELSE IF ShouldOptimizeAudio
         THEN \* sendStatus Uploading, Optimizing; ffmpeg(...).save(outputPath)
           /\ events' = events \o <<StatusEvent("Uploading", 20),
                                    StatusEvent("Optimizing", 40)>>
           /\ Keep(Spawned(Registered(Current)))
           /\ currentProcess' = TRUE
           /\ optimizeCalls' = optimizeCalls + 1
           /\ pc' = "await_ffmpeg"
           /\ UNCHANGED <<resEnded, copy>>
         ELSE \* sendStatus Uploading; await fs.promises.copyFile(audioPath, tempPath)
           /\ events' = Append(events, StatusEvent("Uploading", 20))
           /\ Keep(Registered(Current))
           /\ copy' = "pending"
           /\ pc' = "await_copy"
           /\ UNCHANGED <<resEnded, currentProcess, optimizeCalls>>

\* part_005 68-118
StartPart005 ==
  /\ variant = "part_005"
  /\ pc = "start"
  /\ UNCHANGED svcVars
  /\ UNCHANGED <<variant, req, signal, globalCleanupRan, closeSnap, closed, currentProcess, copy>>
  /\ UnchangedResults
  /\ UNCHANGED <<transcribeCalls, improveCalls>>
  /\ IF ~req.hasFile
       THEN /\ Catch(events, Current, "No file uploaded")
            /\ UNCHANGED optimizeCalls
       ELSE IF ~req.audio
         THEN \* !req.file.mimetype?.startsWith('audio/')
           /\ Catch(events, Current, "Invalid file type. Please upload an audio file.")
           /\ UNCHANGED optimizeCalls
         ELSE \* sendStatus Uploading, Optimizing; await optimizeAudio(req.file.path)
           /\ events' = events \o <<StatusEvent("Uploading", 20),
                                    StatusEvent("Optimizing", 40)>>
           /\ Keep(Spawned(Current))
           /\ optimizeCalls' = optimizeCalls + 1
           /\ pc' = "await_ffmpeg"
           /\ UNCHANGED resEnded

\* part_006 155-182.  req.file.path is read before the try block: without a
\* file the handler's promise rejects with a TypeError, nothing is written,
\* and whether the response is ever answered is the framework's business.
StartPart006 ==
  /\ variant = "part_006"
  /\ pc = "start"
  /\ UNCHANGED svcVars
  /\ UNCHANGED <<variant, req, signal, globalCleanupRan, closeSnap, closed, currentProcess, copy>>
  /\ UnchangedResults
  /\ UNCHANGED <<transcribeCalls, improveCalls>>
  /\ IF ~req.hasFile
       THEN /\ pc' = "crashed"
            /\ resEnded' \in BOOLEAN
            /\ Keep(Current)
            /\ UNCHANGED <<events, optimizeCalls>>
       ELSE IF ShouldOptimizeAudio
         THEN \* write 'Optimizing audio...'; await optimizeAudio(original, optimized)
           /\ events' = Append(events, StatusEvent("Optimizing audio...", 0))
           /\ Keep(Spawned(Current))
           /\ optimizeCalls' = optimizeCalls + 1
           /\ pc' = "await_ffmpeg"
           /\ UNCHANGED resEnded
         ELSE \* write 'Transcribing audio...'; await fs.promises.stat(file)
           /\ events' = Append(events, StatusEvent("Transcribing audio...", 30))
           /\ Keep(Current)
           /\ pc' = "await_stat"
           /\ UNCHANGED <<resEnded, optimizeCalls>>

---------------------------------------------------------------------------
(* The environment: ffmpeg, the file copy, the client *)

\* ffmpeg creates its output file while it runs
FfmpegWrite ==
  /\ proc = "running"
  /\ FfmpegOutputPath \notin fs
  /\ fs' = fs \cup {FfmpegOutputPath}
  /\ UNCHANGED svcVars
  /\ UNCHANGED <<variant, req, signal, globalCleanupRan, closeSnap, pc, events, resEnded, closed, proc, currentProcess,
                 copy, cleanupCalls, ioFault, activeConnections, activeProcesses>>
  /\ UnchangedResults
  /\ UnchangedCalls

\* ffmpeg exits: with its output written, or with an error
FfmpegExit ==
  /\ proc = "running"
  /\ \/ /\ proc' = "ended"
        /\ fs' = fs \cup {FfmpegOutputPath}
     \/ /\ proc' = "failed"
        /\ UNCHANGED fs
  /\ UNCHANGED svcVars
  /\ UNCHANGED <<variant, req, signal, globalCleanupRan, closeSnap, pc, events, resEnded, closed, currentProcess,
                 copy, cleanupCalls, ioFault, activeConnections, activeProcesses>>
  /\ UnchangedResults
  /\ UnchangedCalls

\* the copy of the upload ends: it fails when its source is gone, and may
\* fail for a reason of the file system
CopyFinish ==
  /\ copy = "pending"
  /\ \/ /\ UploadPath \in fs
        /\ copy' = "ok"
        /\ fs' = fs \cup {OptimizedDirPath(UploadPath)}
     \/ /\ copy' = "failed"
        /\ UNCHANGED fs
  /\ UNCHANGED svcVars
  /\ UNCHANGED <<variant, req, signal, globalCleanupRan, closeSnap, pc, events, resEnded, closed, proc, currentProcess,
                 cleanupCalls, ioFault, activeConnections, activeProcesses>>
  /\ UnchangedResults
  /\ UnchangedCalls

\* the client disconnects: req.on('close', cleanup) where it is registered
Close ==
  /\ ~closed
  /\ pc # "start"
  /\ signal # "exited"
  /\ closed' = TRUE
  /\ closeSnap' = [pc |-> pc, proc |-> proc, fs |-> fs, nEvents |-> Len(events)]
  /\ IF Inline
       THEN \E f1, f2 \in BOOLEAN : ApplyRelease(Cleanup(Current, f1, f2))
       ELSE Keep(Current)
  /\ UNCHANGED svcVars
  /\ UNCHANGED <<variant, req, signal, globalCleanupRan, pc, events, resEnded, currentProcess, copy>>
  /\ UnchangedResults
  /\ UnchangedCalls

---------------------------------------------------------------------------
(* The handler resumes after an await *)

\* existsSync(path), statSync, createReadStream, fetch(.../audio/transcriptions)
VerifyAndTranscribe(evs, st, path, missingMsg) ==
  IF path \in st.fs
    THEN /\ events' = evs
         /\ Keep(st)
         /\ transcribeCalls' = transcribeCalls + 1
         /\ pc' = "await_fetch"
         /\ UNCHANGED resEnded
    ELSE /\ Catch(evs, st, missingMsg)
         /\ UNCHANGED transcribeCalls

\* the ffmpeg promise settles.  server.js 139-196, part_004 232-292,
\* part_005 118-150, part_006 175-182
AfterFfmpeg ==
  /\ pc = "await_ffmpeg"
  /\ proc \in {"ended", "failed", "killed"}
  /\ UNCHANGED svcVars
  /\ UNCHANGED <<variant, req, signal, globalCleanupRan, closeSnap, closed, currentProcess, copy>>
  /\ UnchangedResults
  /\ UNCHANGED <<optimizeCalls, improveCalls>>
  /\ IF FfmpegSettled(proc) = "reject"
       THEN \* reject(err): the catch block
         /\ Catch(events, Settled(Current), FfmpegErrorMessage(proc))
         /\ UNCHANGED transcribeCalls
       ELSE IF Inline
         THEN VerifyAndTranscribe(events, Settled(Current),
                                  OptimizedDirPath(UploadPath), "Audio file not found")
         ELSE IF variant = "part_005"
           THEN VerifyAndTranscribe(Append(events, StatusEvent("Transcribing", 60)),
                                    Current, OptimizerOutputPath(UploadPath),
                                    "Failed to optimize audio file")
           ELSE \* part_006: two writes, then await fs.promises.stat
             /\ events' = events \o
                  <<StatusEvent("Audio optimization complete", 20),
                    StatusEvent("Transcribing audio...", 30)>>
             /\ Keep(Current)
             /\ pc' = "await_stat"
             /\ UNCHANGED <<resEnded, transcribeCalls>>

\* the copy promise settles.  server.js 162-196, part_004 258-292
AfterCopy ==
  /\ pc = "await_copy"
  /\ copy \in {"ok", "failed"}
  /\ UNCHANGED svcVars
  /\ UNCHANGED <<variant, req, signal, globalCleanupRan, closeSnap, closed, currentProcess, copy>>
  /\ UnchangedResults
  /\ UNCHANGED <<optimizeCalls, improveCalls>>
  /\ IF copy = "failed"
       THEN /\ Catch(events, Current, "ENOENT: no such file or directory, copyfile")
            /\ UNCHANGED transcribeCalls
       ELSE VerifyAndTranscribe(Append(events, StatusEvent("Transcribing", 40)),
                                Current, OptimizedDirPath(UploadPath),
                                "Audio file not found")

\* part_006 182-184: fs.promises.stat(fileToTranscribe), then transcribeAudio
AfterStat ==
  /\ pc = "await_stat"
  /\ UNCHANGED svcVars
  /\ UNCHANGED <<variant, req, signal, globalCleanupRan, closeSnap, closed, currentProcess, copy>>
  /\ UnchangedResults
  /\ UNCHANGED <<optimizeCalls, improveCalls>>
  /\ VerifyAndTranscribe(events, Current, FileToTranscribe,
                         "ENOENT: no such file or directory, stat")

\* the Complete event(s) and the end of the try block.
\*   server.js 220-232, part_004 316-328: sendStatus('Complete', 100), then
\*     the event with the transcription
\*   part_005 175-180: the event with the improved transcription
\*   part_006 203-209: the event with result {original, improved}
Complete(evs, st, original, final, improved) ==
  Finish(
    IF Inline
      THEN evs \o <<StatusEvent("Complete", 100), CompleteTranscriptionEvent(final)>>
      ELSE IF variant = "part_005"
        THEN Append(evs, CompleteTranscriptionEvent(final))
        ELSE Append(evs, CompleteResultEvent(original,
                           IF ShouldImproveTranscription THEN improved ELSE Null)),
    st)

\* the transcription call settles.  server.js 189-224, part_004 285-320,
\* part_005 143-172, part_006 184-200 with transcribeAudio 242-271
AfterTranscribe ==
  /\ pc = "await_fetch"
  /\ UNCHANGED svcVars
  /\ UNCHANGED <<variant, req, signal, globalCleanupRan, closeSnap, closed, currentProcess, copy>>
  /\ UNCHANGED <<optimizeCalls, transcribeCalls, improveResult>>
  /\ \E outcome \in TranscribeOutcomes :
       /\ transcribeResult' = outcome.kind
       /\ IF outcome.kind = "network_error"
            THEN \* fetch rejects
              /\ Catch(events, Current, outcome.body)
              /\ UNCHANGED <<transcript, improveCalls>>
            ELSE IF ~ResponseOk(outcome)
              THEN \* errorData = await response.text(); throw
                /\ Catch(IF variant = "part_006" THEN events
                         ELSE Append(events, ErrorEvent(outcome.body)),
                         Current, "OpenAI API error: " \o outcome.body)
                /\ UNCHANGED <<transcript, improveCalls>>
              ELSE
                /\ transcript' = outcome.body
                /\ LET evs ==
                         IF Inline THEN events
                         ELSE IF variant = "part_005"
                           THEN Append(events, StatusEvent("Transcribing", 80))
                           ELSE Append(events, StatusEvent("Transcription complete", 80))
                   IN IF RunsImprove
                        THEN /\ events' = Append(evs,
                                    IF Inline
                                      THEN StatusEvent("Improving transcription", 80)
                                    ELSE IF variant = "part_005"
                                      THEN StatusEvent("Improving transcription", 90)
                                    ELSE StatusEvent("Improving transcription...", 90))
                             /\ improveCalls' = improveCalls + 1
                             /\ pc' = "await_improve"
                             /\ Keep(Current)
                             /\ UNCHANGED resEnded
                        ELSE /\ Complete(evs, Current, outcome.body, outcome.body, Null)
                             /\ UNCHANGED improveCalls

\* the refinement call settles.  server.js 218-232 with improveTranscription
\* 246-265, part_004 314-328, part_005 172-180, part_006 193-209
AfterImprove ==
  /\ pc = "await_improve"
  /\ UNCHANGED svcVars
  /\ UNCHANGED <<variant, req, signal, globalCleanupRan, closeSnap, closed, currentProcess, copy>>
  /\ UNCHANGED <<optimizeCalls, transcribeCalls, improveCalls,
                 transcript, transcribeResult>>
  /\ \E outcome \in ImproveOutcomes :
       LET r == ImproveTranscription(transcript, outcome) IN
         /\ improveResult' = IF outcome.kind = "ok" THEN "ok" ELSE "failed"
         /\ IF ~r.threw
              THEN Complete(events, Current, transcript, r.value, r.value)
              ELSE IF variant = "part_006"
                THEN \* the inner catch: one more status, improvedText = null
                  Complete(Append(events,
                             StatusEvent("Error improving transcription, using original", 90)),
                           Current, transcript, transcript, Null)
                ELSE Catch(events, Current, r.value)

---------------------------------------------------------------------------

\* the process-wide cleanup(): every registered ffmpeg process is killed, every
\* file of uploads/ and optimized/ is unlinked (the first unlink that throws
\* ends the loop), every registered response is ended
GlobalCleanup(st, f) ==
  [fs |-> IF f THEN st.fs ELSE {},
   proc |-> IF "proc" \in st.activeProcesses /\ st.proc = "running"
              THEN "killed" ELSE st.proc,
   activeProcesses |-> {},
   activeConnections |-> {},
   endsRes |-> "res" \in st.activeConnections,
   fault |-> f /\ st.fs # {}]

\* another request fails in a middleware (a CORS rejection, a malformed body)
\* while this run is in the process: the global error handler calls cleanup()
GlobalErrorHandler ==
  /\ variant \in {"part_004", "part_006"}
  /\ ~globalCleanupRan
  /\ pc # "start"
  /\ globalCleanupRan' = TRUE
  /\ \E f \in BOOLEAN :
       LET r == GlobalCleanup(Current, f)
       IN /\ fs' = r.fs
          /\ proc' = r.proc
          /\ activeProcesses' = r.activeProcesses
          /\ activeConnections' = r.activeConnections
          /\ resEnded' = (resEnded \/ r.endsRes)
          /\ ioFault' = (ioFault \/ r.fault)
  /\ UNCHANGED svcVars
  /\ UNCHANGED <<variant, req, signal, closeSnap, pc, events, closed,
                 currentProcess, copy, cleanupCalls>>
  /\ UnchangedResults
  /\ UnchangedCalls

Next ==
  \/ StartInline
  \/ StartPart005
  \/ StartPart006
  \/ FfmpegWrite
  \/ FfmpegExit
  \/ CopyFinish
  \/ Close
  \/ AfterFfmpeg
  \/ AfterCopy
  \/ AfterStat
  \/ AfterTranscribe
  \/ AfterImprove

Spec == Init /\ [][Next]_vars

\* part_004 132-148, part_006 132-148: SIGTERM or SIGINT while the run is in
\* the process: cleanup(), then server.close(...)
Sigterm ==
  /\ variant \in {"part_004", "part_006"}
  /\ signal = "none"
  /\ pc # "start"
  /\ \E sig \in {"SIGTERM", "SIGINT"} : signal' = sig
  /\ \E f \in BOOLEAN :
       LET r == GlobalCleanup(Current, f)
       IN /\ fs' = r.fs
          /\ proc' = r.proc
          /\ activeProcesses' = r.activeProcesses
          /\ activeConnections' = r.activeConnections
          /\ resEnded' = (resEnded \/ r.endsRes)
          /\ ioFault' = (ioFault \/ r.fault)
  /\ UNCHANGED svcVars
  /\ UNCHANGED <<variant, req, globalCleanupRan, closeSnap, pc, events, closed,
                 currentProcess, copy, cleanupCalls>>
  /\ UnchangedResults
  /\ UnchangedCalls

\* the callback of server.close: the connections are gone (the response was
\* ended or the client has left), process.exit(0); nothing of the run resumes
ProcessExit ==
  /\ signal \in {"SIGTERM", "SIGINT"}
  /\ resEnded \/ closed
  /\ signal' = "exited"
  /\ pc' = "exited"
  /\ UNCHANGED svcVars
  /\ UNCHANGED <<variant, req, globalCleanupRan, closeSnap, events, resEnded, closed,
                 fs, proc, currentProcess, copy, cleanupCalls, ioFault,
                 activeConnections, activeProcesses>>
  /\ UnchangedResults
  /\ UnchangedCalls

\* the run inside a process that is told to terminate
NextSignal ==
  \/ Next
  \/ Sigterm
  \/ ProcessExit

SpecSignal == Init /\ [][NextSignal]_vars

\* the run inside a process that serves other requests as well
NextShared ==
  \/ Next
  \/ GlobalErrorHandler

SpecShared == Init /\ [][NextShared]_vars

---------------------------------------------------------------------------
(* The modular application: routes/transcription.js hands the request to   *)
(* TranscriptionController.transcribe, which calls                         *)
(* TranscriptionService.transcribe(req.file.buffer).  Messages are         *)
(* sequences of words, so that String.includes is a search.                *)

\* the entries of the service's temporary directory
TempDir == "whisper-XXXXXX"
InputPath == "whisper-XXXXXX/input.mp3"
OptimizedPath == "whisper-XXXXXX/optimized-input.ogg"

\* how axios.post can settle: a 2xx answer with the text, a non-2xx answer
\* with {error: {message}}, or no answer at all
PostOutcomes ==
  [kind : {"ok"}, status : {200}, data : Transcripts, message : {<<>>}]
    \cup [kind : {"http_error"}, status : {429}, data : {Absent},
          message : {<<"Rate", "limit", "reached", "for", "requests">>,
                     <<"You", "exceeded", "your", "current", "quota">>,
                     <<"rate", "limit", "exceeded">>}]
    \cup [kind : {"http_error"}, status : {400}, data : {Absent},
          message : {<<"Invalid", "file", "format">>}]
    \cup [kind : {"network_error"}, status : {0}, data : {Absent},
          message : {<<>>}]

\* an error object: kind "axios" has a response when status is not 0
Err(kind, status, message) == [kind |-> kind, status |-> status, message |-> message]

\* message.includes(w1 + ' ' + w2)
Includes(message, w1, w2) ==
  \E i \in 1..(Len(message) - 1) : message[i] = w1 /\ message[i + 1] = w2

\* the test that ignores the letters' case
MentionsRateLimitAnyCase(err) ==
  /\ err.kind = "axios"
  /\ err.status # 0
  /\ \E r \in {"rate", "Rate"} : Includes(err.message, r, "limit")

\* error.response?.data?.error?.message?.includes('rate limit')
MentionsRateLimit(err) ==
  /\ err.kind = "axios"
  /\ err.status # 0
  /\ Includes(err.message, "rate", "limit")

Response(status, error, transcription) ==
  [status |-> status, error |-> error, transcription |-> transcription]

\* the controller's catch block
ControllerCatch(err) ==
  IF MentionsRateLimit(err)
    THEN Response(429, "Rate limit exceeded", Absent)
    ELSE Response(500, "Transcription failed", Absent)

\* an optimizer whose promise rejects when the unlink of the input fails
OptimizeAudioForWhisperStrict(t, outcome, wrote, unlinkFails) ==
  IF outcome = "end" /\ ~unlinkFails
    THEN [settled |-> "resolve",
          tmp |-> (t \cup {OptimizedPath}) \ {InputPath},
          fault |-> FALSE]
    ELSE [settled |-> "reject",
          tmp |-> IF wrote \/ outcome = "end" THEN t \cup {OptimizedPath} ELSE t,
          fault |-> unlinkFails /\ outcome = "end"]

\* optimizeAudioForWhisper(inputPath) when ffmpeg settles: on 'end' the input
\* is unlinked and the promise resolves whether or not the unlink worked; on
\* 'error' the promise rejects
OptimizeAudioForWhisper(t, outcome, wrote, unlinkFails) ==
  IF outcome = "end"
    THEN [settled |-> "resolve",
          tmp |-> IF unlinkFails THEN t \cup {OptimizedPath}
                  ELSE (t \cup {OptimizedPath}) \ {InputPath},
          fault |-> unlinkFails]
    ELSE [settled |-> "reject",
          tmp |-> IF wrote THEN t \cup {OptimizedPath} ELSE t,
          fault |-> FALSE]

\* cleanupAudioFile(filePath): the unlink's failure is only warned about
CleanupAudioFile(t, path, unlinkFails) ==
  IF unlinkFails THEN t ELSE t \ {path}

\* a catch block that rethrows without removing the directory
ServiceCatchKeepsDir(err, t, faultBefore) ==
  /\ tmp' = t
  /\ svcFault' = (svcFault \/ faultBefore)
  /\ thrown' = err
  /\ sent' = Append(sent, ControllerCatch(err))
  /\ svcPc' = "done"

\* the service's catch block, then the controller's: rmdir in its own
\* try/catch, `throw error`, and the controller answers
ServiceCatch(err, t, faultBefore) ==
  /\ \E f \in BOOLEAN :
       /\ tmp' = IF f THEN t ELSE {}
       /\ svcFault' = (svcFault \/ faultBefore \/ f)
  /\ thrown' = err
  /\ sent' = Append(sent, ControllerCatch(err))
  /\ svcPc' = "done"

HandlerVars ==
  <<variant, req, pc, events, resEnded, closed, fs, proc, currentProcess,
    copy, transcript, transcribeResult, improveResult, optimizeCalls,
    transcribeCalls, improveCalls, cleanupCalls, ioFault,
    activeConnections, activeProcesses, closeSnap, globalCleanupRan, signal>>

\* the request reaches the modular application: multer keeps the file in
\* memory, nothing is on disk
InitService ==
  /\ variant = "modular"
  /\ req \in {r \in Requests : /\ r.audio = r.hasFile
                               /\ r.optimizeAudio = "absent"
                               /\ r.improveTranscription = "absent"}
  /\ pc = "start"
  /\ events = <<>>
  /\ resEnded = FALSE
  /\ closed = FALSE
  /\ fs = {}
  /\ proc = "none"
  /\ currentProcess = FALSE
  /\ copy = "none"
  /\ transcript = Absent
  /\ transcribeResult = "none"
  /\ improveResult = "none"
  /\ optimizeCalls = 0
  /\ transcribeCalls = 0
  /\ improveCalls = 0
  /\ cleanupCalls = 0
  /\ ioFault = FALSE
  /\ activeConnections = {}
  /\ activeProcesses = {}
  /\ closeSnap = NoSnap
  /\ globalCleanupRan = FALSE
  /\ signal = "none"
  /\ svcPc = "start"
  /\ tmp = {}
  /\ sent = <<>>
  /\ postResult = NoOutcome
  /\ svcCalls = [ffmpeg |-> 0, post |-> 0]
  /\ svcFault = FALSE
  /\ thrown = NoError

\* controller 46-55, service 17: no file -> 400; else mkdtemp, which is
\* outside the service's try
SvcStart ==
  /\ variant = "modular"
  /\ svcPc = "start"
  /\ UNCHANGED HandlerVars
  /\ UNCHANGED <<postResult, svcCalls, svcFault>>
  /\ IF ~req.hasFile
       THEN /\ sent' = Append(sent, Response(400, "No audio file provided", Absent))
            /\ svcPc' = "done"
            /\ UNCHANGED <<tmp, thrown>>
       ELSE \E ok \in BOOLEAN :
              IF ok
                THEN /\ tmp' = {TempDir}
                     /\ svcPc' = "await_writeFile"
                     /\ UNCHANGED <<sent, thrown>>
                ELSE /\ thrown' = Err("fs", 0, <<"mkdtemp">>)
                     /\ sent' = Append(sent, ControllerCatch(Err("fs", 0, <<"mkdtemp">>)))
                     /\ svcPc' = "done"
                     /\ UNCHANGED tmp

\* service 22-25: writeFile settles; then optimizeAudioForWhisper starts ffmpeg
SvcWriteFile ==
  /\ variant = "modular"
  /\ svcPc = "await_writeFile"
  /\ UNCHANGED HandlerVars
  /\ UNCHANGED postResult
  /\ \E ok \in BOOLEAN :
       IF ok
         THEN /\ tmp' = tmp \cup {InputPath}
              /\ svcCalls' = [svcCalls EXCEPT !.ffmpeg = @ + 1]
              /\ svcPc' = "await_ffmpeg"
              /\ UNCHANGED <<sent, svcFault, thrown>>
         ELSE /\ ServiceCatch(Err("fs", 0, <<"writeFile">>), tmp, FALSE)
              /\ UNCHANGED svcCalls

\* audioProcessor 28-39, service 25-28: ffmpeg settles
SvcFfmpeg ==
  /\ variant = "modular"
  /\ svcPc = "await_ffmpeg"
  /\ UNCHANGED HandlerVars
  /\ UNCHANGED <<postResult, svcCalls>>
  /\ \E outcome \in {"end", "error"}, wrote, unlinkFails \in BOOLEAN :
       LET r == OptimizeAudioForWhisper(tmp, outcome, wrote, unlinkFails) IN
         IF r.settled = "resolve"
           THEN /\ tmp' = r.tmp
                /\ svcFault' = (svcFault \/ r.fault)
                /\ svcPc' = "await_readFile"
                /\ UNCHANGED <<sent, thrown>>
           ELSE ServiceCatch(Err("ffmpeg", 0, <<"Failed", "to", "process", "audio">>),
                             r.tmp, FALSE)

\* service 28-47: readFile settles; then axios.post is called
SvcReadFile ==
  /\ variant = "modular"
  /\ svcPc = "await_readFile"
  /\ UNCHANGED HandlerVars
  /\ UNCHANGED postResult
  /\ \E ok \in BOOLEAN :
       IF ok
         THEN /\ svcCalls' = [svcCalls EXCEPT !.post = @ + 1]
              /\ svcPc' = "await_post"
              /\ UNCHANGED <<tmp, sent, svcFault, thrown>>
         ELSE /\ ServiceCatch(Err("fs", 0, <<"readFile">>), tmp, FALSE)
              /\ UNCHANGED svcCalls

\* service 47-73, controller 55-71: axios.post settles.  After a 2xx answer
\* the service cleans up inside the try, before `return response.data`
SvcPost ==
  /\ variant = "modular"
  /\ svcPc = "await_post"
  /\ UNCHANGED HandlerVars
  /\ UNCHANGED svcCalls
  /\ \E outcome \in PostOutcomes, f1, f2 \in BOOLEAN :
       /\ postResult' = outcome
       /\ IF outcome.kind = "ok"
            THEN LET t1 == CleanupAudioFile(tmp, OptimizedPath, f1) IN
                   IF f2
                     THEN \* rmdir throws: the catch block
                       ServiceCatch(Err("fs", 0, <<"rmdir">>), t1, TRUE)
                     ELSE /\ tmp' = {}
                          /\ svcFault' = (svcFault \/ f1)
                          /\ sent' = Append(sent, Response(200, Absent, outcome.data))
                          /\ svcPc' = "done"
                          /\ UNCHANGED thrown
            ELSE ServiceCatch(Err("axios", outcome.status, outcome.message), tmp, FALSE)

NextService ==
  \/ SvcStart
  \/ SvcWriteFile
  \/ SvcFfmpeg
  \/ SvcReadFile
  \/ SvcPost

SpecService == InitService /\ [][NextService]_vars

\* either application serves the request
InitAll == Init \/ InitService

NextAll ==
  \/ Next
  \/ NextService

SpecAll == InitAll /\ [][NextAll]_vars

---------------------------------------------------------------------------
(* Properties *)

Ended == pc \in {"done", "crashed"}
Indices == 1..Len(events)
LastEvent == events[Len(events)]
ImprovingStatuses == {"Improving transcription", "Improving transcription..."}
StageStatuses ==
  {"Uploading", "Optimizing", "Optimizing audio...", "Audio optimization complete",
   "Transcribing", "Transcribing audio...", "Transcription complete"}
    \cup ImprovingStatuses

\* C1: at most one terminal event (Complete or Error) is written, nothing is
\* written after it, and a handler that ran to its end has written one.
C1_ExactlyOneTerminalEventLast ==
  /\ \A i \in Indices : IsTerminal(events[i]) => i = Len(events)
  /\ pc = "done" => \E i \in Indices : IsTerminal(events[i])

\* C2: the progress values of a run's events are non-decreasing in the order
\* they were written, the Error event included.
C2_ProgressNonDecreasing ==
  \A i, j \in Indices :
    (i < j /\ events[i].hasProgress /\ events[j].hasProgress)
      => events[i].progress <= events[j].progress

\* C3: when the run has ended and no unlink failed in the file system, no file
\* of the run is left: the upload, the normalizer's output and the .mp3 copy
\* are gone.
C3_NoFileLeftAfterRun == (pc = "done" /\ ~ioFault) => fs = {}

\* C4: the per-run release is never invoked twice, and a handler that ran to
\* its end has invoked it once.
C4_CleanupExactlyOnce ==
  /\ cleanupCalls <= 1
  /\ pc = "done" => cleanupCalls = 1

\* C5: when the refinement call has failed, the run has ended with a Complete
\* event that carries the transcription backend's text, and no Error event
\* was written.
C5_RefinementFailureStillCompletes ==
  improveResult = "failed" =>
    /\ pc = "done"
    /\ LastEvent.status = "Complete"
    /\ IF variant = "part_006"
         THEN LastEvent.original = transcript
         ELSE LastEvent.transcription = transcript
    /\ \A i \in Indices : events[i].status # "Error"

\* a run whose requested refinement failed after a non-empty transcript
C5_Witness ==
  /\ improveResult = "failed"
  /\ ShouldImproveTranscription
  /\ transcript = "salam"
  /\ pc = "done"

\* C6: a Complete event's result has a non-null `improved` only if
\* improveTranscription was requested and the refinement call succeeded.
C6_ImprovedOnlyWhenRefined ==
  \A i \in Indices :
    (events[i].status = "Complete" /\ events[i].original # Absent
       /\ events[i].improved # Null)
      => (ShouldImproveTranscription /\ improveResult = "ok")

\* C7: when the transcription call has failed (network error or non-OK
\* answer), the run has ended with an Error event, the refinement backend was
\* not called and no Improving event was written.
C7_TranscriptionFailureIsFatal ==
  transcribeResult \in {"http_error", "network_error"} =>
    /\ pc = "done"
    /\ LastEvent.status = "Error"
    /\ improveCalls = 0
    /\ \A i \in Indices : events[i].status \notin ImprovingStatuses

\* a run with improveTranscription on whose transcription got a non-OK answer
C7_Witness ==
  /\ transcribeResult = "http_error"
  /\ ShouldImproveTranscription
  /\ pc = "done"

\* C8: when ffmpeg has failed, the handler's only next step is its end; the
\* transcription backend is never called, and at the end the last event is an
\* Error carrying ffmpeg's message and the release has run.
C8_NormalizerFailureIsFatal ==
  proc \in {"failed", "killed"} =>
    /\ pc \in {"await_ffmpeg", "done"}
    /\ transcribeCalls = 0
    /\ pc = "done" =>
         /\ LastEvent.status = "Error"
         /\ LastEvent.error = FfmpegErrorMessage(proc)
         /\ cleanupCalls >= 1

\* a run with optimizeAudio on whose ffmpeg exited with an error
C8_Witness ==
  /\ proc = "failed"
  /\ ShouldOptimizeAudio
  /\ pc = "done"

\* C9: a request without a file writes no stage event and invokes no adapter,
\* and when its handler has ended exactly one event, an Error, was written.
C9_NoFileFailsFast ==
  ~req.hasFile =>
    /\ \A i \in Indices : events[i].status \notin StageStatuses
    /\ optimizeCalls = 0 /\ transcribeCalls = 0 /\ improveCalls = 0
    /\ Ended => (Len(events) = 1 /\ events[1].status = "Error")

\* C10: without a client disconnect, a handler that has terminated has
\* written a terminal event and ended the response.
C10_TerminatesWithTerminalEvent ==
  (Ended /\ ~closed) =>
    /\ resEnded
    /\ \E i \in Indices : IsTerminal(events[i])

---------------------------------------------------------------------------
(* Disconnects                                                             *)

\* the stages whose adapter call is outstanding
InFlight == {"await_ffmpeg", "await_copy", "await_stat", "await_fetch", "await_improve"}

\* the audio file whose read stream is handed to the transcription call
HandedToTranscription ==
  IF Inline THEN OptimizedDirPath(UploadPath)
  ELSE IF variant = "part_005" THEN OptimizerOutputPath(UploadPath)
  ELSE FileToTranscribe

\* C11: when 'close' fires while the ffmpeg subprocess of the run is running,
\* the subprocess gets a kill request, and every file that existed at the
\* disconnect (the upload, the partial output) is gone once the run has
\* finished.
C11_DisconnectKillsNormalizerAndReleases ==
  closeSnap.proc = "running" =>
    /\ proc = "killed"
    /\ (pc = "done" /\ ~ioFault) => (closeSnap.fs \cap fs = {})

\* C12: in the revisions that listen to 'close' (server.js, part_004), after a
\* disconnect during a stage no further stage starts: the transcription
\* backend is not called after 'close' fired while ffmpeg was running, the
\* refinement backend is not called after 'close' fired during the
\* transcription call; and cleanup has run when the run is over.
C12_NoStageStartsAfterDisconnect ==
  Inline =>
    /\ closeSnap.proc = "running" => transcribeCalls = 0
    /\ closeSnap.pc = "await_fetch" => improveCalls = 0
    /\ (closed /\ pc = "done") => cleanupCalls >= 1

\* C13: in the revisions that listen to 'close' (server.js, part_004), a
\* disconnect cancels the outstanding adapter call: a running ffmpeg is
\* terminated, and a request outstanding at the disconnect is aborted, so the
\* run never receives the backend's answer to it.
C13_DisconnectCancelsOutstandingCall ==
  Inline =>
    /\ (closeSnap.pc = "await_ffmpeg" /\ closeSnap.proc = "running")
         => proc \in {"killed"}
    /\ closeSnap.pc = "await_fetch" => transcribeResult \notin {"ok", "http_error"}
    /\ closeSnap.pc = "await_improve" => improveResult # "ok"

\* C14: no event is written to the response after 'close' has fired.
C14_NoEventAfterDisconnect ==
  \A i \in Indices : ~events[i].afterClose

\* C15: a 'close' that fires after the terminal event was written and cleanup
\* has run changes nothing: no file appears or disappears, no event is
\* written, the subprocess is left as it was.
C15_DisconnectAfterEndIsNoOp ==
  closeSnap.pc = "done" =>
    /\ fs = closeSnap.fs
    /\ Len(events) = closeSnap.nEvents
    /\ proc = closeSnap.proc

\* C16: an event of another request (here: its middleware error, handled by
\* the global error handler) deletes no file of this run, kills no subprocess
\* of this run and does not end this run's response.
C16_OtherRequestLeavesRunAlone ==
  [][(~globalCleanupRan /\ globalCleanupRan')
       => (fs' = fs /\ proc' = proc /\ resEnded' = resEnded)]_vars

\* C17: while a stage of the run is in flight (its adapter call outstanding,
\* its subprocess not killed) the uploaded file exists, and while the
\* transcription call is outstanding the audio file handed to it exists.
C17_InputsSurviveWhileStageInFlight ==
  (req.hasFile /\ pc \in InFlight /\ proc # "killed") =>
    /\ UploadPath \in fs
    /\ pc = "await_fetch" => HandedToTranscription \in fs

---------------------------------------------------------------------------
(* Event sequences                                                         *)

OptimizingStatuses == {"Optimizing", "Optimizing audio..."}
TranscribingStatuses == {"Transcribing", "Transcribing audio..."}
RateLimitMessages ==
  {"rate limit exceeded", "OpenAI API error: rate limit exceeded"}

\* the number of events written with one of the statuses
Count(statuses) == Cardinality({i \in Indices : events[i].status \in statuses})

Is(e, status, progress) ==
  e.status = status /\ e.hasProgress /\ e.progress = progress

\* C18: in server.js and part_004, a run with a file, optimizeAudio=false,
\* improveTranscription=false and a successful transcription writes exactly
\* Uploading(20), Transcribing(40) and Complete(100) with result
\* {original: the transcript, improved: null}.
C18_PlainRunEmitsThreeEvents ==
  (Inline /\ pc = "done" /\ req.hasFile /\ req.optimizeAudio = "false"
     /\ req.improveTranscription = "false" /\ transcribeResult = "ok")
  => /\ Len(events) = 3
     /\ Is(events[1], "Uploading", 20)
     /\ Is(events[2], "Transcribing", 40)
     /\ Is(events[3], "Complete", 100)
     /\ events[3].original = transcript
     /\ events[3].improved = Null

\* C19: in server.js and part_004, a run with a file and optimizeAudio=false
\* whose transcription call is answered with a rate-limit error writes
\* exactly Uploading(20), Transcribing(40) and one Error event with the
\* rate-limit message.
C19_RateLimitRunEmitsThreeEvents ==
  (Inline /\ pc = "done" /\ req.hasFile /\ req.optimizeAudio = "false"
     /\ transcribeResult = "http_error"
     /\ \E i \in Indices : events[i].error \in RateLimitMessages)
  => /\ Len(events) = 3
     /\ Is(events[1], "Uploading", 20)
     /\ Is(events[2], "Transcribing", 40)
     /\ events[3].status = "Error"
     /\ events[3].error \in RateLimitMessages

\* C20: every stage that has started its work has written exactly one stage
\* event: one Optimizing event once ffmpeg was started, one Transcribing event
\* once the transcription backend was called, one Improving event once the
\* refinement backend was called.
C20_StageEventBeforeStageWork ==
  /\ optimizeCalls >= 1 => Count(OptimizingStatuses) = 1
  /\ transcribeCalls >= 1 => Count(TranscribingStatuses) = 1
  /\ improveCalls >= 1 => Count(ImprovingStatuses) = 1

---------------------------------------------------------------------------
(* Options, result and release                                             *)

\* C21: the normalizer runs, and an Optimizing event is written, only if
\* optimizeAudio is 'true'; the refinement backend is called, and an
\* Improving event is written, only if improveTranscription is 'true'.
C21_OptionalStagesOnlyWhenRequested ==
  /\ (optimizeCalls >= 1 \/ Count(OptimizingStatuses) >= 1)
       => req.optimizeAudio = "true"
  /\ (improveCalls >= 1 \/ Count(ImprovingStatuses) >= 1)
       => req.improveTranscription = "true"

\* the raw transcript a final event carries: result.original, or the
\* transcription property where the event has no result
RawCarried(e) == IF e.original # Absent THEN e.original ELSE e.transcription

\* C22: the raw transcript carried by the final Complete event is the text
\* the transcription backend returned, whatever the refinement returned.
C22_OriginalIsRawTranscript ==
  (pc = "done" /\ LastEvent.status = "Complete")
    => RawCarried(LastEvent) = transcript

\* C24: in server.js and part_004, when the run is over and the upload is
\* still there (its unlink failed), the normalized or copied file has been
\* removed all the same, and the response has left the registry.
C24_ReleaseFailureDoesNotBlockOthers ==
  (Inline /\ pc = "done" /\ req.hasFile /\ UploadPath \in fs)
    => /\ OptimizedDirPath(UploadPath) \notin fs
       /\ "res" \notin activeConnections

\* what a release leaves behind
Released(r) ==
  [fs |-> r.fs, proc |-> r.proc,
   activeProcesses |-> r.activeProcesses,
   activeConnections |-> r.activeConnections]

C27_CompleteHasNonEmptyOriginal ==
  \A i \in Indices : events[i].status = "Complete" => transcript # ""

\* C28: every Complete event has progress 100, and an event with progress 100
\* is written only when the transcription has succeeded and, where the run
\* refines, the refinement call has settled.
C28_CompleteIs100AndLast ==
  \A i \in Indices :
    /\ events[i].status = "Complete"
         => (events[i].hasProgress /\ events[i].progress = 100)
    /\ (events[i].hasProgress /\ events[i].progress = 100)
         => (transcribeResult = "ok" /\ (RunsImprove => improveResult # "none"))

C28_Witness ==
  /\ pc = "done"
  /\ RunsImprove
  /\ improveResult = "ok"
  /\ Len(events) >= 1
  /\ LastEvent.status = "Complete"
  /\ LastEvent.progress = 100

\* C29: the transcription backend is called only after ffmpeg has ended
\* successfully (where the run normalizes), the refinement backend only after
\* the transcription backend has answered successfully, and at most one
\* adapter call is outstanding: ffmpeg runs only while the handler awaits it,
\* and so does the copy.
C29_StagesStrictlyOrdered ==
  /\ (transcribeCalls >= 1 /\ RunsOptimizer) => proc = "ended"
  /\ improveCalls >= 1 => transcribeResult = "ok"
  /\ proc = "running" => pc = "await_ffmpeg"
  /\ copy = "pending" => pc = "await_copy"
  /\ pc \in {"await_fetch", "await_improve"} => proc \in {"none", "ended"}

C29_Witness ==
  /\ pc = "await_improve"
  /\ RunsOptimizer
  /\ proc = "ended"
  /\ transcribeResult = "ok"

---------------------------------------------------------------------------
(* Failures of the release, classification, retries                        *)

\* C23: a failed release is only logged: when the transcription call has
\* succeeded, the service's caller gets the transcript (one 200 response
\* carrying it), and the handler's run ends with Complete.
C23_ReleaseFailureOnlyLogged ==
  /\ (svcPc = "done" /\ postResult.kind = "ok")
       => sent = <<Response(200, Absent, postResult.data)>>
  /\ (pc = "done" /\ transcribeResult = "ok")
       => LastEvent.status = "Complete"

\* C26: a failed transcription call is answered with 429 exactly when the
\* backend's answer was a rate-limit answer (HTTP 429).
C26_RateLimitClassifiedDistinctly ==
  (svcPc = "done" /\ postResult.kind \in {"http_error", "network_error"})
    => /\ Len(sent) = 1
       /\ (sent[1].status = 429) <=> (postResult.status = 429)

\* C30: no stage is invoked twice in a run: the handler's normalizer,
\* transcription call and refinement call, the service's ffmpeg and
\* axios.post.
C30_NoStageRetried ==
  /\ optimizeCalls <= 1
  /\ transcribeCalls <= 1
  /\ improveCalls <= 1
  /\ svcCalls.ffmpeg <= 1
  /\ svcCalls.post <= 1

\* a run whose transcription call failed and was not repeated
C30_Witness ==
  /\ pc = "done"
  /\ transcribeResult = "network_error"
  /\ transcribeCalls = 1
  /\ optimizeCalls = 1

---------------------------------------------------------------------------
(* The modular application                                                 *)

\* C31: when TranscriptionService.transcribe has returned or thrown, the
\* temporary directory and the files in it are gone unless a removal itself
\* failed; and after a failed write, a failed conversion or a failed backend
\* call the error thrown is that failure's error.
C31_TempDirRemovedOnEveryPath ==
  svcPc = "done" =>
    /\ ~svcFault => tmp = {}
    /\ postResult.kind \in {"http_error", "network_error"}
         => thrown = Err("axios", postResult.status, postResult.message)
    /\ (svcCalls.ffmpeg = 0 /\ req.hasFile)
         => thrown.message \in {<<"mkdtemp">>, <<"writeFile">>}
    /\ (svcCalls.ffmpeg = 1 /\ svcCalls.post = 0)
         => thrown.kind \in {"ffmpeg", "fs"}

\* the backend call failed, the directory had files in it, and it is gone
C31_Witness ==
  /\ svcPc = "done"
  /\ postResult.kind = "http_error"
  /\ thrown.kind = "axios"
  /\ ~svcFault
  /\ tmp = {}

\* C32: optimizeAudioForWhisper removes its input only when the conversion
\* ended; a failed conversion leaves the input and rejects; a conversion that
\* ended resolves with the output file in place whether or not the unlink of
\* the input worked; the promise settles one way.
C32_OptimizerDeletesInputOnlyOnSuccess ==
  svcPc = "await_ffmpeg" =>
    \A outcome \in {"end", "error"}, wrote, unlinkFails \in BOOLEAN :
      LET r == OptimizeAudioForWhisper(tmp, outcome, wrote, unlinkFails) IN
        /\ r.settled \in {"resolve", "reject"}
        /\ outcome = "error"
             => (r.settled = "reject" /\ InputPath \in r.tmp)
        /\ outcome = "end"
             => /\ r.settled = "resolve"
                /\ OptimizedPath \in r.tmp
                /\ (InputPath \in r.tmp) <=> unlinkFails

\* the conversion ended, the unlink of the input failed, the service went on
C32_Witness ==
  /\ svcPc = "await_readFile"
  /\ InputPath \in tmp
  /\ OptimizedPath \in tmp
  /\ svcFault

---------------------------------------------------------------------------
(* Registries and shutdown                                                 *)

\* C35: in part_004 a run that has ended has left both registries: its ffmpeg
\* process is registered only while the handler awaits it, its response only
\* while the run has not ended.
C35_RegistriesHoldOnlyLiveRuns ==
  variant = "part_004" =>
    /\ "proc" \in activeProcesses => pc = "await_ffmpeg"
    /\ "res" \in activeConnections => pc # "done"

\* C33: the cleanup run on SIGTERM or SIGINT leaves no ffmpeg of an in-flight
\* run running, has ended the run's response, has emptied both registries
\* and, when no unlink failed, has removed the run's files.
C33_SignalCleanupReleasesInFlightRuns ==
  [][(signal = "none" /\ signal' \in {"SIGTERM", "SIGINT"} /\ pc \in InFlight)
       => /\ proc' # "running"
          /\ resEnded'
          /\ activeProcesses' = {}
          /\ activeConnections' = {}
          /\ ~ioFault' => fs' = {}]_vars

====
